---- MODULE Spec2Model ----
(***************************************************************************)
(* Model of wait_until_time (src/src/trench_mcp/server.py, lines 158-219)  *)
(* and of the Time Source it polls, make_api_request("GET", "/time").      *)
(*                                                                         *)
(* A timestamp text is a sequence of tokens: a body token (a local date    *)
(* and time, counted in whole hours, or junk) followed by suffix tokens    *)
(* (the letter Z or a numeric UTC offset in hours).  Wall-clock time is    *)
(* counted in ticks.  Local times stand for dates well inside              *)
(* datetime.MINYEAR..MAXYEAR, where astimezone cannot overflow.            *)
(***************************************************************************)
EXTENDS Integers, Sequences, FiniteSets

\* ---- bounds of the model ------------------------------------------------
MaxLocal == 3
MaxSuffix == 1
MaxWaitTicks == 6
PollTicks == 2
MaxQueryDur == 1
MaxOversleep == 1
MaxStart == 1

\* ---- timestamp texts ----------------------------------------------------
Tok(k, v) == [k |-> k, v |-> v]
ZTok == Tok("Z", 0)
JunkTok == Tok("junk", 0)
Offsets == {-1, 0, 2}
BodyToks == {Tok("t", n) : n \in 0..MaxLocal} \cup {JunkTok}
SuffixToks == {ZTok} \cup {Tok("off", o) : o \in Offsets}
SuffixSeqs == UNION {[1..n -> SuffixToks] : n \in 0..MaxSuffix}
Texts == {<<>>} \cup {<<b>> \o s : b \in BodyToks, s \in SuffixSeqs}

\* str.endswith('Z')
endswith_Z(s) == Len(s) > 0 /\ s[Len(s)].k = "Z"

\* s[:-1] + '+00:00'
replace_Z(s) == SubSeq(s, 1, Len(s) - 1) \o <<Tok("off", 0)>>

\* datetime.fromisoformat raises ValueError unless the text is a date-time
\* optionally followed by one numeric offset.
fromisoformat_lenient(s) == Len(s) \in {1, 2} /\ (Len(s) = 2 => s[2].k = "off")
fromisoformat_ok(s) ==
    /\ Len(s) \in {1, 2}
    /\ s[1].k = "t"
    /\ (Len(s) = 2 => s[2].k = "off")

\* the datetime fromisoformat returns: naive when the text has no offset
fromisoformat(s) ==
    [local |-> s[1].v, aware |-> Len(s) = 2, off |-> IF Len(s) = 2 THEN s[2].v ELSE 0]

\* d.replace(tzinfo=utc): the naive local time is taken as UTC
replace_tzinfo_local(d) == d.local - 1
replace_tzinfo_utc(d) == d.local

\* d.astimezone(utc): the instant of an aware datetime
astimezone_keep_local(d) == d.local
astimezone_utc(d) == d.local - d.off

\* lines 171-179: normalization of the target
target_fixed(s) == IF endswith_Z(s) THEN replace_Z(s) ELSE s
target_to_utc(d) == IF ~d.aware THEN replace_tzinfo_utc(d) ELSE astimezone_utc(d)

\* lines 198-208: normalization of the Time Source's current time
current_fixed(s) == IF endswith_Z(s) THEN replace_Z(s) ELSE s
current_to_utc(d) == IF ~d.aware THEN replace_tzinfo_utc(d) ELSE astimezone_utc(d)

\* datetime.isoformat() of a UTC datetime, and the 'Z' the messages append
isoformat(i) == <<Tok("t", i), Tok("off", 0)>>
isoformat_Z(i) == isoformat(i) \o <<ZTok>>

\* ---- Time Source responses ----------------------------------------------
Errors == {"e1", "e2"}
Resp(kind, hasError, err, fieldKind, field) ==
    [kind |-> kind, hasError |-> hasError, error |-> err,
     fieldKind |-> fieldKind, field |-> field]
NoResult == Resp("none", FALSE, "", "absent", <<>>)
\* make_api_request returns {"error": ...} on failure, else response.json():
\* any JSON value; a JSON object may lack current_time_iso, or hold null,
\* a non-zero number or a text there.
Responses ==
    {Resp("nondict", FALSE, "", "absent", <<>>)}
    \cup {Resp("dict", TRUE, e, "absent", <<>>) : e \in Errors}
    \cup {Resp("dict", FALSE, "", fk, <<>>) : fk \in {"absent", "null", "number"}}
    \cup {Resp("dict", FALSE, "", "text", t) : t \in Texts}

\* ---- outcomes -----------------------------------------------------------
Out(tag, site, text, err, current, target) ==
    [tag |-> tag, site |-> site, text |-> text, err |-> err,
     current |-> current, target |-> target]
NoOutcome == Out("None", "", <<>>, "", <<>>, <<>>)

\* ---- program constants --------------------------------------------------
max_wait_seconds == MaxWaitTicks
poll_interval == PollTicks

VARIABLES
    target_arg,       \* the text the caller passed (never reassigned; ghost)
    target_time_iso,  \* the parameter, reassigned at line 172
    target_dt,
    start_time,
    now,              \* the wall clock, time.time()
    pc,
    result,
    current_dt,
    outcome,
    queries,          \* ghost: Time Source queries issued
    sleeps,           \* ghost: sleeps taken
    earlierBelow,     \* ghost: every reading before the last was valid and < target
    lastQ,            \* ghost: duration of the last query
    lastS             \* ghost: duration of the last sleep

vars == <<target_arg, target_time_iso, target_dt, start_time, now, pc, result,
          current_dt, outcome, queries, sleeps, earlierBelow, lastQ, lastS>>

Init ==
    /\ target_arg \in Texts
    /\ target_time_iso = target_arg
    /\ target_dt = 0
    /\ start_time = 0
    /\ now \in 0..MaxStart
    /\ pc = "start"
    /\ result = NoResult
    /\ current_dt = 0
    /\ outcome = NoOutcome
    /\ queries = 0
    /\ sleeps = 0
    /\ earlierBelow = TRUE
    /\ lastQ = 0
    /\ lastS = 0

\* lines 169-184
ParseTarget ==
    /\ pc = "start"
    /\ LET fixed == target_fixed(target_time_iso) IN
        /\ target_time_iso' = fixed
        /\ IF fromisoformat_ok(fixed)
           THEN /\ target_dt' = target_to_utc(fromisoformat(fixed))
                /\ start_time' = now
                /\ pc' = "loop"
                /\ UNCHANGED outcome
           ELSE /\ outcome' = Out("ParseError", "target", fixed, "", <<>>, <<>>)
                /\ pc' = "returned"
                /\ UNCHANGED <<target_dt, start_time>>
    /\ UNCHANGED <<target_arg, now, result, current_dt, queries, sleeps,
                   earlierBelow, lastQ, lastS>>

\* line 187: the loop condition
LoopCondLe(elapsed) == elapsed <= max_wait_seconds
LoopCond(elapsed) == elapsed < max_wait_seconds

\* lines 187, 219
LoopCheck ==
    /\ pc = "loop"
    /\ IF LoopCond(now - start_time)
       THEN /\ pc' = "query"
            /\ UNCHANGED outcome
       ELSE /\ outcome' = Out("TimedOut", "", <<>>, "", <<>>, isoformat_Z(target_dt))
            /\ pc' = "returned"
    /\ UNCHANGED <<target_arg, target_time_iso, target_dt, start_time, now, result,
                   current_dt, queries, sleeps, earlierBelow, lastQ, lastS>>

\* ---- ISO-8601 reading of a text, used to state the properties -----------
\* a date-time, optionally followed by Z or by one numeric offset
IsISO(s) ==
    /\ Len(s) \in {1, 2}
    /\ s[1].k = "t"
    /\ (Len(s) = 2 => s[2].k \in {"Z", "off"})

\* the absolute UTC instant an ISO-8601 text denotes (no offset means UTC)
UtcInstant(s) == s[1].v - (IF Len(s) = 2 /\ s[2].k = "off" THEN s[2].v ELSE 0)

\* r is a success payload whose current-time field is a text
TextReading(r) == r.kind = "dict" /\ ~r.hasError /\ r.fieldKind = "text"
ValidReading(r) == TextReading(r) /\ IsISO(r.field)

\* r is a valid reading strictly before the target the caller passed
ValidBelow(r) ==
    /\ ValidReading(r)
    /\ IsISO(target_arg)
    /\ UtcInstant(r.field) < UtcInstant(target_arg)

\* line 188: one Time Source query; it takes d ticks of wall-clock time
Query ==
    /\ pc = "query"
    /\ \E d \in 0..MaxQueryDur, r \in Responses :
        /\ now' = now + d
        /\ lastQ' = d
        /\ result' = r
    /\ queries' = queries + 1
    /\ earlierBelow' = (earlierBelow /\ (queries > 0 => ValidBelow(result)))
    /\ pc' = "handle"
    /\ UNCHANGED <<target_arg, target_time_iso, target_dt, start_time, current_dt,
                   outcome, sleeps, lastS>>

\* line 189: "error" in result (raises TypeError on a JSON number; on a list
\* or a string 'in' succeeds but the next subscription or .get raises)
has_error_wrong_key(r) == FALSE
has_error(r) == r.kind = "dict" /\ r.hasError

\* line 193: not current_time_iso (absent, None, '' are all falsy)
field_falsy(r) ==
    \/ r.fieldKind \in {"absent", "null"}
    \/ r.fieldKind = "text" /\ r.field = <<>>

\* line 211
reached_strict(c, t) == c > t
reached(c, t) == c >= t

Return(o) ==
    /\ outcome' = o
    /\ pc' = "returned"
    /\ UNCHANGED current_dt

\* lines 189-215
HandleResult ==
    /\ pc = "handle"
    /\ IF result.kind # "dict"
       THEN \* TypeError / AttributeError is not caught by except ValueError
            /\ pc' = "raised"
            /\ UNCHANGED <<outcome, current_dt>>
       ELSE IF has_error(result)
       THEN Return(Out("SourceError", "", <<>>, result.error, <<>>, <<>>))
       ELSE IF field_falsy(result)
       THEN Return(Out("MissingField", "", <<>>, "", <<>>, <<>>))
       ELSE IF result.fieldKind # "text"
       THEN \* current_time_iso.endswith raises AttributeError
            /\ pc' = "raised"
            /\ UNCHANGED <<outcome, current_dt>>
       ELSE LET fixed == current_fixed(result.field) IN
            IF ~fromisoformat_ok(fixed)
            THEN Return(Out("ParseError", "current", result.field, "", <<>>, <<>>))
            ELSE LET c == current_to_utc(fromisoformat(fixed)) IN
                 /\ current_dt' = c
                 /\ IF reached(c, target_dt)
                    THEN /\ outcome' = Out("Reached", "", <<>>, "",
                                           isoformat_Z(c), isoformat_Z(target_dt))
                         /\ pc' = "returned"
                    ELSE /\ pc' = "sleep"
                         /\ UNCHANGED outcome
    /\ UNCHANGED <<target_arg, target_time_iso, target_dt, start_time, now, result,
                   queries, sleeps, earlierBelow, lastQ, lastS>>

\* line 217: time.sleep(0.1) suspends for at least the interval
Sleep ==
    /\ pc = "sleep"
    /\ \E over \in 0..MaxOversleep :
        /\ now' = now + poll_interval + over
        /\ lastS' = poll_interval + over
    /\ sleeps' = sleeps + 1
    /\ pc' = "loop"
    /\ UNCHANGED <<target_arg, target_time_iso, target_dt, start_time, result,
                   current_dt, outcome, queries, earlierBelow, lastQ>>

Next == ParseTarget \/ LoopCheck \/ Query \/ HandleResult \/ Sleep

Spec == Init /\ [][Next]_vars

\* one thread of control runs the call; every query returns (requests timeout)
FairSpec == Spec /\ WF_vars(Next)

\* ---- properties ---------------------------------------------------------
Terminated == pc \in {"returned", "raised"}
\* the last query's response has been handled
Handled == queries > 0 /\ pc # "handle"
Elapsed == now - start_time

\* C1 (as claimed): if no reading ever is >= target the call returns TimedOut
\* after an elapsed wall-clock time >= timeout and < timeout + poll_interval.
C1Claim ==
    (Terminated /\ queries > 0 /\ earlierBelow /\ ValidBelow(result)) =>
        /\ pc = "returned" /\ outcome.tag = "TimedOut"
        /\ Elapsed >= max_wait_seconds
        /\ Elapsed < max_wait_seconds + poll_interval

\* C1 (amended): if no reading ever is >= target the call returns TimedOut
\* after an elapsed wall-clock time >= timeout and < timeout + the duration of
\* the last query + the duration of the last sleep (at least poll_interval).
C1Amended ==
    (Terminated /\ queries > 0 /\ earlierBelow /\ ValidBelow(result)) =>
        /\ pc = "returned" /\ outcome.tag = "TimedOut"
        /\ outcome.target[1].v = UtcInstant(target_arg)
        /\ Elapsed >= max_wait_seconds
        /\ Elapsed < max_wait_seconds + lastQ + lastS
        /\ lastS >= poll_interval

C1Witness ==
    /\ pc = "returned" /\ outcome.tag = "TimedOut"
    /\ earlierBelow /\ ValidBelow(result)
    /\ lastQ > 0
    /\ Elapsed >= max_wait_seconds + poll_interval

\* C2: a target that is not ISO-8601 ends the call with ParseError, with no
\* Time Source query, no sleep and no wall-clock time spent.
C2Theorem ==
    (pc # "start" /\ ~IsISO(target_arg)) =>
        /\ pc = "returned"
        /\ outcome.tag = "ParseError" /\ outcome.site = "target"
        /\ queries = 0 /\ sleeps = 0
        /\ lastQ = 0 /\ lastS = 0
        /\ result = NoResult

C2Witness ==
    /\ pc = "returned" /\ outcome.tag = "ParseError" /\ outcome.site = "target"
    /\ target_arg = <<JunkTok>>
    /\ queries = 0

\* C3: a failed Time Source query, in any iteration, ends the call at once with
\* SourceError carrying the error description: no sleep and no query follows.
C3Theorem ==
    (Handled /\ result.kind = "dict" /\ result.hasError) =>
        /\ pc = "returned"
        /\ outcome.tag = "SourceError"
        /\ outcome.err = result.error
        /\ sleeps = queries - 1

C3Witness ==
    /\ pc = "returned" /\ outcome.tag = "SourceError"
    /\ result.hasError /\ outcome.err = "e2"
    /\ queries >= 2

\* C4: the call returns Reached at the first reading >= target, carrying that
\* reading's instant, after exactly k queries and k-1 sleeps.
C4Theorem ==
    /\ outcome.tag = "Reached" =>
        /\ pc = "returned"
        /\ ValidReading(result) /\ IsISO(target_arg)
        /\ UtcInstant(result.field) >= UtcInstant(target_arg)
        /\ earlierBelow
        /\ outcome.current[1].v = UtcInstant(result.field)
        /\ sleeps = queries - 1
    /\ (Handled /\ earlierBelow /\ ValidReading(result) /\ IsISO(target_arg)
          /\ UtcInstant(result.field) >= UtcInstant(target_arg)) =>
        /\ pc = "returned" /\ outcome.tag = "Reached"
    /\ (queries = 1 /\ outcome.tag = "Reached") => sleeps = 0

C4Witness ==
    /\ pc = "returned" /\ outcome.tag = "Reached"
    /\ queries >= 2 /\ sleeps = queries - 1
    /\ UtcInstant(result.field) = UtcInstant(target_arg)

\* C5: a valid reading satisfies the wait exactly when its UTC instant is >=
\* the target's UTC instant, whatever offsets the two texts are written with.
C5Theorem ==
    (Handled /\ ValidReading(result) /\ IsISO(target_arg)) =>
        ((outcome.tag = "Reached") <=>
            (UtcInstant(result.field) >= UtcInstant(target_arg)))

C5Witness ==
    /\ pc = "returned" /\ outcome.tag = "Reached"
    /\ Len(target_arg) = 2 /\ target_arg[2] = Tok("off", 2)
    /\ Len(result.field) = 2 /\ result.field[2] = ZTok
    /\ result.field[1].v = target_arg[1].v - 2

\* a text with Z or +00:00 stripped: the UTC variants of a text share it
Canon(s) ==
    IF Len(s) = 2 /\ (s[2] = ZTok \/ s[2] = Tok("off", 0)) THEN <<s[1]>> ELSE s

\* C6: the target rule and the current-time rule map a text, and its Z,
\* +00:00 and no-offset variants, to the same UTC instant.
C6Theorem ==
    (Handled /\ TextReading(result) /\ IsISO(target_arg)
       /\ Canon(result.field) = Canon(target_arg)) =>
        /\ outcome.tag = "Reached"
        /\ current_dt = target_dt
        /\ outcome.current = outcome.target

C6Witness ==
    /\ pc = "returned" /\ outcome.tag = "Reached"
    /\ Len(target_arg) = 1
    /\ result.field = target_arg \o <<ZTok>>
    /\ current_dt = target_dt

\* C7 (as claimed): no invocation ends by an exception.
C7Claim == pc # "raised"

\* C8 (as claimed): a ParseError carries the offending text verbatim: the
\* target the caller passed, or the current-time text the Time Source returned.
C8Claim ==
    outcome.tag = "ParseError" =>
        /\ outcome.site = "target" => outcome.text = target_arg
        /\ outcome.site = "current" => outcome.text = result.field

\* C9 (as claimed): a success response without the field gives the
\* missing-field error; a present but malformed text (the empty text
\* included) gives ParseError.
C9Claim ==
    (Handled /\ result.kind = "dict" /\ ~result.hasError) =>
        /\ result.fieldKind = "absent" =>
             (pc = "returned" /\ outcome.tag = "MissingField")
        /\ (result.fieldKind = "text" /\ ~IsISO(result.field)) =>
             (pc = "returned" /\ outcome.tag = "ParseError"
                /\ outcome.site = "current")

\* C10 (as claimed): every invocation eventually returns; it returns before
\* the timeout only with Reached, SourceError, the missing-field error or
\* ParseError; it sleeps again only after a valid reading < target.
C10Claim ==
    /\ <>(pc = "returned")
    /\ [](Terminated =>
            \/ outcome.tag \in {"Reached", "SourceError", "MissingField", "ParseError"}
            \/ outcome.tag = "TimedOut" /\ Elapsed >= max_wait_seconds)
    /\ [](pc = "sleep" => ValidBelow(result))

====
